---- MODULE Spec2Model ----
(***************************************************************************)
(* NodeCache (src/src/index.ts): an in-process cache with colon-delimited  *)
(* hierarchical keys, a nested value tree (store), a key index (keys) and  *)
(* one setTimeout per TTL-bearing set.                                     *)
(*                                                                         *)
(* A key is a JavaScript string, modelled as a sequence of one-character   *)
(* strings, so that split(':'), join(':') and startsWith are computed.     *)
(* The file is an ES module holding a class, so its code is strict-mode    *)
(* code: assigning a property on a primitive raises a TypeError, as does   *)
(* the `in` operator applied to a primitive.                               *)
(***************************************************************************)
EXTENDS Integers, Sequences, FiniteSets, Bags, TLC

VARIABLES
    store,    \* this.store: the value tree
    keys,     \* this.keys: the key index
    options,  \* this.options (readonly after construction)
    timers,   \* pending setTimeout callbacks, a bag of timer records
    lastOp,   \* the operation that produced this state, and how it ended
    dbg       \* a second NodeCache, built with the same options and
              \* debug: true, that is given the same calls and firings

vars == <<store, keys, options, timers, lastOp, dbg>>

---------------------------------------------------------------------------
(* Bounds of the model *)

MaxTimers == 1      \* at most this many callbacks pending at once
MaxTtl == 1         \* per-call ttl arguments are 0..MaxTtl seconds

(* Program constants *)

MsPerSec == 1000    \* `* 1000` in set
NoTtl == -1         \* an omitted ttl (undefined)
UndefinedVal == 0   \* the value undefined

Colon == ":"

\* The keys the callers use: "a", "a:b", "a:bc" and "a:b:c". "a:bc" is a
\* sibling of "a:b" that has the string "a:b" as a prefix.
KeyUniverse ==
    { <<"a">>,
      <<"a", ":", "b">>,
      <<"a", ":", "b", "c">>,
      <<"a", ":", "b", ":", "c">> }

\* The values the callers store: two numbers.
Values == {1, 2}

\* The ttl arguments of set: omitted, or 0..MaxTtl seconds.
TtlArgs == {NoTtl} \cup (0..MaxTtl)

\* The options the store is constructed with: no ttl, or a default of 2 s.
OptionsUniverse == {[ttl |-> NoTtl], [ttl |-> 2]}

---------------------------------------------------------------------------
(* Strings *)

\* The least index of a ':' in s, or 0.
ColonIndex(s) ==
    IF \E i \in 1..Len(s) : s[i] = Colon
    THEN CHOOSE i \in 1..Len(s) :
            s[i] = Colon /\ \A j \in 1..(i - 1) : s[j] # Colon
    ELSE 0

\* key.split(':')
RECURSIVE Split(_)
Split(s) ==
    LET i == ColonIndex(s) IN
    IF i = 0 THEN <<s>>
    ELSE <<SubSeq(s, 1, i - 1)>> \o Split(SubSeq(s, i + 1, Len(s)))

\* key.split(':') of each key the callers use, computed once.
SplitTable == [k \in KeyUniverse |-> Split(k)]
Parts(key) == SplitTable[key]

\* parts.join(':')
RECURSIVE Join(_)
Join(parts) ==
    IF Len(parts) = 0 THEN <<>>
    ELSE IF Len(parts) = 1 THEN parts[1]
    ELSE parts[1] \o <<Colon>> \o Join(Tail(parts))

\* k.startsWith(p)
StartsWith(k, p) ==
    Len(k) >= Len(p) /\ SubSeq(k, 1, Len(p)) = p

---------------------------------------------------------------------------
(* Values of the tree: a primitive (a number or undefined) or an object *)

Leaf(v) == [isLeaf |-> TRUE, val |-> v, kids |-> <<>>]
Obj(f) == [isLeaf |-> FALSE, val |-> UndefinedVal, kids |-> f]
Undefined == Leaf(UndefinedVal)
EmptyObj == Obj(<<>>)

\* `part in current` for an object current
In(part, cur) == part \in DOMAIN cur.kids

\* current[part] = child
Put(cur, part, child) ==
    Obj([p \in (DOMAIN cur.kids) \cup {part} |->
            IF p = part THEN child ELSE cur.kids[p]])

\* delete current[part]
Remove(cur, part) ==
    Obj([p \in (DOMAIN cur.kids) \ {part} |-> cur.kids[p]])

\* What a call hands back: whether it threw, and the value it returned.
Returned(v) == [err |-> FALSE, ret |-> v]
Thrown == [err |-> TRUE, ret |-> Undefined]

---------------------------------------------------------------------------
(* Timers: setTimeout(callback, delay) *)

\* A pending callback of set: `key` is the key it will delete, `left` the
\* milliseconds until the scheduler may run it (setTimeout's delay when armed).
NewTimer(key, delay) == [key |-> key, left |-> delay]

One(t) == SetToBag({t})

Max(a, b) == IF a >= b THEN a ELSE b

\* One second passes for a pending callback.
Advance(t) == [t EXCEPT !.left = Max(t.left - MsPerSec, 0)]

RECURSIVE CopiesSum(_, _)
CopiesSum(B, S) ==
    IF S = {} THEN 0
    ELSE LET t == CHOOSE x \in S : TRUE
         IN CopiesIn(t, B) + CopiesSum(B, S \ {t})

\* Every pending callback advanced by one second.
AdvanceAll(B) ==
    LET S == BagToSet(B)
        T == {Advance(t) : t \in S}
    IN [u \in T |-> CopiesSum(B, {t \in S : Advance(t) = u})]

\* The scheduler runs a callback at or after its delay, never before.
Due(t) == t.left = 0

---------------------------------------------------------------------------
(* NodeCache *)

\* if (ttl || this.options.ttl): a number is truthy unless it is 0
Truthy(n) == n # NoTtl /\ n # 0

ShouldArm(ttl) == Truthy(ttl) \/ Truthy(options.ttl)

\* ttl ?? this.options.ttl
TtlOrDefault(ttl) == IF ttl # NoTtl THEN ttl ELSE options.ttl

\* const effectiveTtl = (ttl ?? this.options.ttl)! * 1000
EffectiveTtl(ttl) == TtlOrDefault(ttl) * MsPerSec

\* An addKey that puts the key itself in the index and none of its parents.
addKeyFullOnly(ks, key) == ks \cup {key}

\* addKey: the key and each of its parent keys join the index.
addKey(ks, key) ==
    LET parts == Parts(key)
    IN ks \cup {Join(SubSeq(parts, 1, i)) : i \in 1..Len(parts)}

\* A deleteKey that takes out the key alone and leaves its sub-keys.
deleteKeyExactOnly(ks, key) == ks \ {key}

\* A deleteKey that matches sub-keys by startsWith(key), without the ':'.
deleteKeyNoSeparator(ks, key) == {k \in ks : ~StartsWith(k, key)}

\* deleteKey: the key and its sub-keys leave the index.
deleteKey(ks, key) ==
    {k \in ks : ~(k = key \/ StartsWith(k, key \o <<Colon>>))}

\* has
has(key) == key \in keys

\* The loop of get over the parts left, from `cur`.
RECURSIVE GetWalk(_, _)
GetWalk(cur, parts) ==
    IF Len(parts) = 0 THEN Returned(cur)
    ELSE IF cur.isLeaf THEN Thrown            \* `part in current`, a primitive
    ELSE IF ~In(parts[1], cur) THEN Returned(Undefined)
    ELSE GetWalk(cur.kids[parts[1]], Tail(parts))

\* get
get(key) ==
    IF key \notin keys THEN Returned(Undefined)
    ELSE GetWalk(store, Parts(key))

\* The forEach of set over the parts left, from `cur`: the object `cur` has
\* become (it is mutated in place), and whether the loop threw.
RECURSIVE SetWalk(_, _, _)
SetWalk(cur, parts, value) ==
    IF Len(parts) = 1
    THEN IF cur.isLeaf
         THEN [err |-> TRUE, node |-> cur]    \* current[part] = value, a primitive
         ELSE [err |-> FALSE, node |-> Put(cur, parts[1], Leaf(value))]
    ELSE IF cur.isLeaf
         THEN [err |-> TRUE, node |-> cur]    \* `part in current`, a primitive
         ELSE LET child == IF In(parts[1], cur) THEN cur.kids[parts[1]]
                           ELSE EmptyObj
                  r == SetWalk(child, Tail(parts), value)
              IN [err |-> r.err, node |-> Put(cur, parts[1], r.node)]

\* A delete that walks to the parent and takes nothing out of it.
DeleteWalkKeepsNode(cur, parts) == [err |-> FALSE, node |-> cur]

\* The loop of delete and its final `delete current[last]`, from `cur`.
RECURSIVE DeleteWalk(_, _)
DeleteWalk(cur, parts) ==
    IF Len(parts) = 1
    THEN IF cur.isLeaf
         THEN [err |-> FALSE, node |-> cur]   \* delete on a primitive: no effect
         ELSE [err |-> FALSE, node |-> Remove(cur, parts[1])]
    ELSE IF cur.isLeaf
         THEN [err |-> TRUE, node |-> cur]    \* `part in current`, a primitive
         ELSE IF ~In(parts[1], cur)
         THEN [err |-> FALSE, node |-> cur]   \* return
         ELSE LET r == DeleteWalk(cur.kids[parts[1]], Tail(parts))
              IN [err |-> r.err, node |-> Put(cur, parts[1], r.node)]

\* delete: what it leaves in the index and the tree, and whether it threw.
delete(key) ==
    LET r == DeleteWalk(store, Parts(key))
    IN [keys |-> deleteKey(keys, key), store |-> r.node, err |-> r.err]

\* console.debug of the lines, under `if (this.options.debug)`.
Trace(c, lines) == IF c.debug THEN lines ELSE <<>>

\* A NodeCache as a value: its debug option, store, keys and pending timers,
\* whether its last call threw and what that call wrote to the console.
NewCache(debug) ==
    [debug |-> debug, store |-> EmptyObj, keys |-> {}, timers |-> EmptyBag,
     err |-> FALSE, log |-> <<>>]

\* set on the cache c.
debugSet(c, key, value, ttl) ==
    LET r == SetWalk(c.store, Parts(key), value)
        arm == ~r.err /\ ShouldArm(ttl)
    IN [c EXCEPT
          !.keys = addKey(c.keys, key),
          !.store = r.node,
          !.timers = IF arm
                     THEN c.timers (+) One(NewTimer(key, EffectiveTtl(ttl)))
                     ELSE c.timers,
          !.err = r.err,
          !.log = Trace(c, <<"Setting key">>) \o
                  (IF r.err THEN <<>>
                   ELSE Trace(c, <<"Key set", "Current store", "Current keys">>))]

\* get on the cache c.
debugGet(c, key) ==
    IF key \notin c.keys THEN Returned(Undefined)
    ELSE GetWalk(c.store, Parts(key))

\* Whether the loop of delete leaves by its `return`.
RECURSIVE DeleteReturns(_, _)
DeleteReturns(cur, parts) ==
    IF Len(parts) = 1 \/ cur.isLeaf THEN FALSE
    ELSE IF ~In(parts[1], cur) THEN TRUE
    ELSE DeleteReturns(cur.kids[parts[1]], Tail(parts))

\* A delete that, tracing, writes its lines and leaves index and tree alone.
debugDeleteTracesOnly(c, key) ==
    LET r == DeleteWalk(c.store, Parts(key))
    IN [c EXCEPT
          !.keys = IF c.debug THEN c.keys ELSE deleteKey(c.keys, key),
          !.store = IF c.debug THEN c.store ELSE r.node,
          !.err = r.err,
          !.log = Trace(c, <<"Deleting key">>)]

\* delete on the cache c.
debugDelete(c, key) ==
    LET r == DeleteWalk(c.store, Parts(key))
    IN [c EXCEPT
          !.keys = deleteKey(c.keys, key),
          !.store = r.node,
          !.err = r.err,
          !.log = Trace(c, <<"Deleting key">>) \o
                  (IF r.err \/ DeleteReturns(c.store, Parts(key)) THEN <<>>
                   ELSE Trace(c, <<"Key deleted", "Current store",
                                   "Current keys">>))]

\* clear on the cache c.
debugClear(c) ==
    [c EXCEPT !.keys = {}, !.store = EmptyObj, !.err = FALSE,
              !.log = Trace(c, <<"Cache cleared">>)]

\* The callback of the timer t of the cache c runs.
debugFire(c, t) ==
    LET d == debugDelete([c EXCEPT !.timers = c.timers (-) One(t)], t.key)
    IN [d EXCEPT !.log = Trace(c, <<"TTL expired">>) \o d.log]

\* A second passes for the cache c.
debugTick(c) ==
    [c EXCEPT !.timers = AdvanceAll(c.timers), !.err = FALSE, !.log = <<>>]

\* What is recorded of the last call: the operation, its key, whether it
\* threw, and the keys it took out of the index.
Op(op, key, err, removed) ==
    [op |-> op, key |-> key, err |-> err, removed |-> removed]

---------------------------------------------------------------------------
(* The state machine *)

Init ==
    /\ store = EmptyObj
    /\ keys = {}
    /\ options \in OptionsUniverse
    /\ timers = EmptyBag
    /\ lastOp = Op("new", <<>>, FALSE, {})
    /\ dbg = NewCache(TRUE)

\* A set that first cancels the pending timers of the key it sets.
SetCancelsTimers(key, value, ttl) ==
    LET r == SetWalk(store, Parts(key), value)
        arm == ~r.err /\ ShouldArm(ttl)
        kept == [t \in {u \in BagToSet(timers) : u.key # key} |->
                    CopiesIn(t, timers)]
    IN /\ arm => BagCardinality(kept) < MaxTimers
       /\ keys' = addKey(keys, key)
       /\ store' = r.node
       /\ timers' = IF arm
                    THEN kept (+) One(NewTimer(key, EffectiveTtl(ttl)))
                    ELSE kept
       /\ lastOp' = [op |-> "set", key |-> key, err |-> r.err, removed |-> {}]
       /\ dbg' = debugSet(dbg, key, value, ttl)
       /\ UNCHANGED options

Set(key, value, ttl) ==
    LET r == SetWalk(store, Parts(key), value)
        arm == ~r.err /\ ShouldArm(ttl)
    IN /\ arm => BagCardinality(timers) < MaxTimers
       /\ keys' = addKey(keys, key)
       /\ store' = r.node
       /\ timers' = IF arm
                    THEN timers (+) One(NewTimer(key, EffectiveTtl(ttl)))
                    ELSE timers
       /\ lastOp' = Op("set", key, r.err, {})
       /\ dbg' = debugSet(dbg, key, value, ttl)
       /\ UNCHANGED options

\* get and has read the state and leave it as it is; what they return, and
\* whether get throws, is get(key) and has(key) of the state they run in.
Get(key) ==
    /\ get(key).err \in BOOLEAN
    /\ UNCHANGED vars

Has(key) ==
    /\ has(key) \in BOOLEAN
    /\ UNCHANGED vars

Delete(key) ==
    LET d == delete(key)
    IN /\ keys' = d.keys
       /\ store' = d.store
       /\ lastOp' = Op("delete", key, d.err, keys \ d.keys)
       /\ dbg' = debugDelete(dbg, key)
       /\ UNCHANGED <<options, timers>>

\* A clear that empties the index and keeps the tree.
ClearKeepsStore ==
    /\ keys' = {}
    /\ lastOp' = [op |-> "clear", key |-> <<>>, err |-> FALSE, removed |-> keys]
    /\ dbg' = debugClear(dbg)
    /\ UNCHANGED <<store, options, timers>>

\* A clear that also cancels every pending timer.
ClearCancelsTimers ==
    /\ keys' = {}
    /\ store' = EmptyObj
    /\ timers' = EmptyBag
    /\ lastOp' = [op |-> "clear", key |-> <<>>, err |-> FALSE, removed |-> keys]
    /\ dbg' = [debugClear(dbg) EXCEPT !.timers = EmptyBag]
    /\ UNCHANGED options

Clear ==
    /\ keys' = {}
    /\ store' = EmptyObj
    /\ lastOp' = Op("clear", <<>>, FALSE, keys)
    /\ dbg' = debugClear(dbg)
    /\ UNCHANGED <<options, timers>>

\* The callback of a timer runs: this.delete(key).
Fire(t) ==
    LET d == delete(t.key)
    IN /\ BagIn(t, timers)
       /\ Due(t)
       /\ timers' = timers (-) One(t)
       /\ keys' = d.keys
       /\ store' = d.store
       /\ lastOp' = Op("fire", t.key, d.err, keys \ d.keys)
       /\ dbg' = debugFire(dbg, t)
       /\ UNCHANGED options

\* A second passes.
Tick ==
    /\ \E t \in BagToSet(timers) : ~Due(t)
    /\ timers' = AdvanceAll(timers)
    /\ lastOp' = Op("tick", <<>>, FALSE, {})
    /\ dbg' = debugTick(dbg)
    /\ UNCHANGED <<store, keys, options>>

Next ==
    \/ \E key \in KeyUniverse, value \in Values, ttl \in TtlArgs :
          Set(key, value, ttl)
    \/ \E key \in KeyUniverse : Get(key)
    \/ \E key \in KeyUniverse : Has(key)
    \/ \E key \in KeyUniverse : Delete(key)
    \/ Clear
    \/ \E t \in BagToSet(timers) : Fire(t)
    \/ Tick

Spec == Init /\ [][Next]_vars

---------------------------------------------------------------------------
(* Vocabulary of the properties *)

K_a == <<"a">>
K_a_b == <<"a", ":", "b">>
K_a_bc == <<"a", ":", "b", "c">>
K_a_b_c == <<"a", ":", "b", ":", "c">>

\* d is a sub-key of k: k followed by ':' is a prefix of d.
IsDescendant(d, k) == StartsWith(d, k \o <<Colon>>)

\* j is k followed by ':' and one more segment.
IsChild(j, k) ==
    LET pj == Split(j)
        pk == Split(k)
    IN Len(pj) = Len(pk) + 1 /\ SubSeq(pj, 1, Len(pk)) = pk

LastPart(j) == Split(j)[Len(Split(j))]

\* The keys of the nodes (objects and leaves) reachable in the tree under
\* `node`, itself reached by the segments `path`.
\* The node the tree holds at the path `parts` below `cur`, if any.
RECURSIVE NodeAt(_, _)
NodeAt(cur, parts) ==
    IF Len(parts) = 0 THEN [found |-> TRUE, node |-> cur]
    ELSE IF cur.isLeaf \/ ~In(parts[1], cur)
         THEN [found |-> FALSE, node |-> Undefined]
    ELSE NodeAt(cur.kids[parts[1]], Tail(parts))

\* The key holds a leaf (a stored value) / a branch (a mapping node).
HoldsLeaf(st, key) ==
    LET n == NodeAt(st, Parts(key)) IN n.found /\ n.node.isLeaf

HoldsBranch(st, key) ==
    LET n == NodeAt(st, Parts(key)) IN n.found /\ ~n.node.isLeaf

RECURSIVE PathsUnder(_, _)
PathsUnder(node, path) ==
    IF node.isLeaf THEN {}
    ELSE UNION { {Join(Append(path, p))}
                     \cup PathsUnder(node.kids[p], Append(path, p))
                 : p \in DOMAIN node.kids }

TreePaths == PathsUnder(store, <<>>)

---------------------------------------------------------------------------
(* C1: in every reachable state a key path is in the key index iff it      *)
(* denotes a node (object or leaf) reachable in the value tree.            *)
C1_IndexMirrorsTree == keys = TreePaths

(* C2: set(k, v) immediately followed by get(k) returns v, whatever the    *)
(* state set ran in.                                                       *)
C2_RoundTrip ==
    [][\A key \in KeyUniverse, value \in Values, ttl \in TtlArgs :
          Set(key, value, ttl) => (get(key) = Returned(Leaf(value)))']_vars

(* C3: no public operation raises: the last set, delete or clear returned  *)
(* normally, and get returns normally for every key in every state.        *)
C3_NoOperationRaises ==
    /\ lastOp.op \in {"set", "delete", "clear"} => ~lastOp.err
    /\ \A key \in KeyUniverse : ~get(key).err

(* C4: after delete(k), called directly or by a timer, has is false for k  *)
(* and for each of its sub-keys, and has keeps its value for each proper   *)
(* ancestor of k.                                                          *)
C4_CascadingDelete ==
    [][lastOp'.op \in {"delete", "fire"} =>
          LET k == lastOp'.key
          IN \A j \in KeyUniverse \cup keys :
                /\ (j = k \/ IsDescendant(j, k)) => ~has(j)'
                /\ IsDescendant(k, j) => (has(j)' <=> has(j))]_vars

C4_Witness ==
    /\ lastOp.op = "delete"
    /\ lastOp.key = K_a_b
    /\ lastOp.removed = {K_a_b, K_a_b_c}
    /\ has(K_a)
    /\ has(K_a_bc)

(* C5: delete(k) for a key k that is not in the index does not raise and   *)
(* leaves the index, the tree and the pending timers as they were.         *)
C5_IdempotentDelete ==
    [][(lastOp'.op = "delete" /\ ~has(lastOp'.key)) =>
          /\ ~lastOp'.err
          /\ UNCHANGED <<keys, store, timers>>]_vars

(* C6: after set(k, v, ttl) with ttl > 0, has(k) is true and a timer for k *)
(* is pending that cannot run before ttl seconds have passed; a timer runs *)
(* only once its delay has passed, and right after it has run has(k) is    *)
(* false.                                                                  *)
C6_TtlExpiry ==
    [][/\ \A key \in KeyUniverse, value \in Values, ttl \in 1..MaxTtl :
             Set(key, value, ttl) =>
                /\ has(key)'
                /\ timers' = timers (+) One(NewTimer(key, ttl * MsPerSec))
       /\ \A t \in BagToSet(timers) :
             Fire(t) => (t.left = 0 /\ ~has(t.key)')]_vars

(* C7: in a store constructed with a default ttl T > 0, set(k, v) arms a   *)
(* timer whose delay is T seconds, and set(k, v, t) one whose delay is t.  *)
C7_DefaultTtlInheritance ==
    [][\A key \in KeyUniverse, value \in Values, ttl \in TtlArgs :
          (Set(key, value, ttl) /\ options.ttl # NoTtl /\ options.ttl > 0) =>
             timers' = timers (+) One(NewTimer(key,
                          (IF ttl = NoTtl THEN options.ttl ELSE ttl) * MsPerSec))
      ]_vars

(* C8: set arms exactly one timer, for the key passed, when the effective  *)
(* ttl (the ttl argument if given, else the default) is defined and not 0, *)
(* and arms none otherwise.                                                *)
C8_ArmsTimerIffEffectiveTtl ==
    [][\A key \in KeyUniverse, value \in Values, ttl \in TtlArgs :
          Set(key, value, ttl) =>
             LET eff == IF ttl # NoTtl THEN ttl ELSE options.ttl
             IN IF eff # NoTtl /\ eff # 0
                THEN timers' = timers (+) One(NewTimer(key, eff * MsPerSec))
                ELSE timers' = timers]_vars

(* C9: clear() does not raise and leaves the index and the tree empty: has *)
(* is false and get is absent for every key.                               *)
C9_ClearResetsFully ==
    lastOp.op = "clear" =>
       /\ ~lastOp.err
       /\ keys = {}
       /\ store = EmptyObj
       /\ \A key \in KeyUniverse :
             ~has(key) /\ get(key) = Returned(Undefined)

C9_Witness ==
    /\ lastOp.op = "clear"
    /\ {K_a, K_a_b, K_a_b_c} \subseteq lastOp.removed
    /\ timers # EmptyBag

(* C10: when k is in the index and get(k) returns an object, its entries   *)
(* are exactly the children of k in the index, each with the value get     *)
(* returns for that child; a child removed by delete is not among them.    *)
C10_GetBranchReturnsChildren ==
    \A k \in KeyUniverse :
       (has(k) /\ ~get(k).err /\ ~get(k).ret.isLeaf) =>
          LET m == get(k).ret.kids
          IN /\ \A p \in DOMAIN m :
                   /\ has(Join(<<k, p>>))
                   /\ get(Join(<<k, p>>)) = Returned(m[p])
             /\ \A j \in keys : IsChild(j, k) => LastPart(j) \in DOMAIN m

C10_Witness ==
    /\ lastOp.op = "delete"
    /\ lastOp.removed = {K_a_bc}
    /\ get(K_a) = Returned(Obj([p \in {<<"b">>} |-> Leaf(1)]))

(* C11: after set(k, v) has is true for k and for every prefix of k, and   *)
(* no key leaves the index; a key leaves the index only by clear or by a   *)
(* delete (direct or timer-fired) of it or of an ancestor; a key enters    *)
(* the index only by a set of it or of one of its sub-keys.                *)
C11_ExistenceMirrorsIndex ==
    [][/\ lastOp'.op = "set" =>
             /\ \A p \in KeyUniverse :
                   (p = lastOp'.key \/ IsDescendant(lastOp'.key, p)) => has(p)'
             /\ keys \subseteq keys'
       /\ \A p \in keys \ keys' :
             \/ lastOp'.op = "clear"
             \/ /\ lastOp'.op \in {"delete", "fire"}
                /\ (p = lastOp'.key \/ IsDescendant(p, lastOp'.key))
       /\ \A p \in keys' \ keys :
             /\ lastOp'.op = "set"
             /\ (p = lastOp'.key \/ IsDescendant(lastOp'.key, p))]_vars

C11_Witness ==
    /\ lastOp.op = "set"
    /\ lastOp.key = K_a_b_c
    /\ ~lastOp.err
    /\ keys = {K_a, K_a_b, K_a_bc, K_a_b_c}
    /\ get(K_a_bc) = Returned(Leaf(2))

(* C12: a timer that fires for a key that is not in the index raises no    *)
(* error and leaves the index and the tree as they were.                   *)
C12_StaleTimerHarmless ==
    [][(lastOp'.op = "fire" /\ ~has(lastOp'.key)) =>
          /\ ~lastOp'.err
          /\ UNCHANGED <<keys, store>>]_vars

(* C13: set cancels no pending timer: every timer pending before a set is  *)
(* pending after it, and when a timer fires its key is removed whatever    *)
(* set was called on that key since the timer was armed.                   *)
C13_ResetKeepsTimer ==
    [][/\ lastOp'.op = "set" =>
             \A t \in BagToSet(timers) : CopiesIn(t, timers') >= CopiesIn(t, timers)
       /\ lastOp'.op = "fire" =>
             /\ ~has(lastOp.key)'
             /\ (get(lastOp.key) = Returned(Undefined))']_vars

\* In a store without default ttl: "a" was set with a ttl of a second or
\* more, its timer has become due, and "a" has since been set again without
\* ttl, to 2: the timer is still pending.
C13_Witness ==
    /\ options.ttl = NoTtl
    /\ lastOp.op = "set"
    /\ lastOp.key = K_a
    /\ ~lastOp.err
    /\ timers = One(NewTimer(K_a, 0))
    /\ get(K_a) = Returned(Leaf(2))

(* C14: every operation and timer firing is one atomic step that updates   *)
(* the index and the tree together: each key it puts in the index denotes  *)
(* a node of the tree afterwards, and each key whose node it takes out of  *)
(* the tree is out of the index afterwards, so that no later step starts   *)
(* with one of the two updated and the other not.                          *)
C14_AtomicIndexAndTree ==
    [][/\ \A p \in keys' \ keys : p \in TreePaths'
       /\ \A p \in TreePaths \ TreePaths' : ~has(p)']_vars

C16_DeeperKeyShadowsScalar ==
    [][\A key \in KeyUniverse, value \in Values, ttl \in TtlArgs :
          \A p \in KeyUniverse :
             (Set(key, value, ttl) /\ IsDescendant(key, p) /\ HoldsLeaf(store, p))
                => /\ HoldsBranch(store', p)
                   /\ (get(key) = Returned(Leaf(value)))']_vars

(* C17: when k holds a branch, set(k, v) makes k a leaf that holds v, and  *)
(* for every key d below k that was present, has(d) is false and get(d)    *)
(* is absent afterwards.                                                   *)
C17_SetOverBranchReplacesSubtree ==
    [][\A key \in KeyUniverse, value \in Values, ttl \in TtlArgs :
          (Set(key, value, ttl) /\ HoldsBranch(store, key))
             => /\ (get(key) = Returned(Leaf(value)))'
                /\ \A d \in KeyUniverse :
                      (IsDescendant(d, key) /\ has(d))
                         => /\ ~has(d)'
                            /\ (get(d) = Returned(Undefined))']_vars

(* C18: delete(k) leaves has(j) and get(j) as they were for every key j    *)
(* that is not k, not below k and not above k, also when j and k share a   *)
(* string prefix that does not end at a separator, and leaves the pending  *)
(* timers as they were.                                                    *)
C18_DeleteFrame ==
    [][lastOp'.op = "delete" =>
          /\ timers' = timers
          /\ \A j \in KeyUniverse :
                (/\ j # lastOp'.key
                 /\ ~IsDescendant(j, lastOp'.key)
                 /\ ~IsDescendant(lastOp'.key, j))
                   => /\ has(j)' = has(j)
                      /\ get(j)' = get(j)]_vars

\* "a:b" has just been deleted while a timer was pending; "a:bc" is still
\* present with its value.
C18_Witness ==
    /\ lastOp.op = "delete"
    /\ lastOp.key = K_a_b
    /\ K_a_b \in lastOp.removed
    /\ timers # EmptyBag
    /\ has(K_a_bc)
    /\ get(K_a_bc) = Returned(Leaf(2))

(* C19: the key index is prefix-closed: with a key it holds every proper   *)
(* prefix of the key.                                                      *)
C19_IndexPrefixClosed ==
    \A k \in keys :
       \A i \in 1..Len(Parts(k)) : Join(SubSeq(Parts(k), 1, i)) \in keys

\* A delete has taken "a:bc" out of a full index; the rest is still closed.
C19_Witness ==
    /\ lastOp.op = "delete"
    /\ lastOp.removed = {K_a_bc}
    /\ keys = {K_a, K_a_b, K_a_b_c}

====
